---- MODULE Spec2Model ----
(***************************************************************************)
(* Model of the buffett-valuation page (src/src/App.jsx), of its earlier   *)
(* revision (src/unnamed/part_001) and of the serverless proxy             *)
(* (src/unnamed/part_000).                                                 *)
(*                                                                         *)
(* Numbers.  A JavaScript number (an IEEE double: a binary mantissa and an *)
(* exponent) is modelled as a decimal floating-point number [m, e] that    *)
(* stands for m * 10^e, with a mantissa of eight digits.  Every product,    *)
(* quotient, sum and difference is rounded to the nearest mantissa, as a   *)
(* double operation rounds to the nearest representable value.  The       *)
(* arithmetic is on non-negative numbers; a negative number occurs only as *)
(* the value parsed from a typed text, which is tested and dropped.        *)
(* toFixed(d) is modelled by what it does: it                              *)
(* rounds to d decimals and the decimal string it returns is represented   *)
(* by the integer number of 10^-d units that the string denotes.           *)
(* A value that lies exactly halfway between two such strings in decimal   *)
(* (13.225) is rounded up here; the double nearest to it may lie just      *)
(* below (13.22499...), so that a chart point can differ by one unit from  *)
(* the one the page shows.  No property below depends on that side.        *)
(***************************************************************************)
EXTENDS Integers, Sequences, FiniteSets, TLC

VARIABLES
    params,       \* App state: [fcf, growth, discount, perpetual]
    valuation,    \* the useMemo value derived from params: Null or a result
    deepReport,   \* App state
    isAnalyzing,  \* App state
    error,        \* App state
    apiKey,       \* module constant of App.jsx, fixed when the page loads
    runs,         \* the handleAiDeepDive runs started so far, in order
    prompt,       \* the prompt built by the latest handleAiDeepDive run
    tempValue,    \* FcfInput state: the text of the number box
    isEditing,    \* FcfInput state: the number box is shown
    envKey,       \* proxy: import.meta.env?.VITE_GEMINI_API_KEY
    reqs          \* proxy: the handler invocations so far, in order

vars == <<params, valuation, deepReport, isAnalyzing, error, apiKey, runs,
          prompt, tempValue, isEditing, envKey, reqs>>

pageVars == <<deepReport, isAnalyzing, error, apiKey, runs, prompt>>
inputVars == <<tempValue, isEditing>>
proxyVars == <<envKey, reqs>>

\* the value null, of a kind TLC can compare with a result record
Null == [null |-> TRUE]
Undefined == "undefined"

----------------------------------------------------------------------------
(* Decimal floating point standing for double arithmetic.                  *)

\* a normalised mantissa m is 0 (with e = 0) or Lo <= m < Hi
Lo == 10 ^ 7
Hi == 10 * Lo
\* a mantissa is split in two limbs of this base to multiply it
Limb == 10 ^ 4
Zero == [m |-> 0, e |-> 0]
\* the values 0 / 0 and x / 0 of a division, and the strings toFixed gives for
\* them, which denote no number of units
NaN == [nan |-> TRUE]
Infinity == [inf |-> TRUE]
NaNText == 0 - 1
InfinityText == 0 - 2

RECURSIVE Norm(_, _)
Norm(m, e) ==
    IF m = 0 THEN Zero
    ELSE IF m >= Hi THEN Norm((m + 5) \div 10, e + 1)
    ELSE IF m < Lo THEN Norm(m * 10, e - 1)
    ELSE [m |-> m, e |-> e]

\* the decimal literal n * 10^-k, e.g. Dec(30, 1) is 3.0
Dec(n, k) == Norm(n, 0 - k)
One == Dec(1, 0)

\* m / 10^d rounded to the nearest integer
Shift(m, d) ==
    IF d > 8 THEN 0
    ELSE LET u == 10 ^ d
         IN  (m \div u) + (IF (m % u) * 2 >= u THEN 1 ELSE 0)

\* <<q, r>> with x * y = q * Hi + r and 0 <= r < Hi, for mantissas x and y
MulParts(x, y) ==
    LET hi  == (x \div Limb) * (y \div Limb)
        mid == (x \div Limb) * (y % Limb) + (x % Limb) * (y \div Limb)
        lo  == (x % Limb) * (y % Limb)
        t   == mid + (lo \div Limb)
    IN  <<hi + (t \div Limb), (t % Limb) * Limb + (lo % Limb)>>

\* <<q, s>> with r * 10^n = q * b + s and 0 <= s < b, for 0 <= r < b < Hi
RECURSIVE LongDiv(_, _, _)
LongDiv(r, b, n) ==
    IF n = 0 THEN <<0, r>>
    ELSE LET p == LongDiv(r, b, n - 1)
         IN  <<p[1] * 10 + ((p[2] * 10) \div b), (p[2] * 10) % b>>

\* a * b
FMul(a, b) ==
    IF a.m = 0 \/ b.m = 0 THEN Zero
    ELSE LET p == MulParts(a.m, b.m)
         IN  IF p[1] >= Lo
             THEN Norm(p[1] + (IF p[2] * 2 >= Hi THEN 1 ELSE 0), a.e + b.e + 8)
             ELSE Norm(p[1] * 10 + (p[2] \div Lo)
                         + (IF (p[2] % Lo) * 2 >= Lo THEN 1 ELSE 0),
                       a.e + b.e + 7)

\* a / b
FDiv(a, b) ==
    IF b.m = 0 THEN (IF a.m = 0 THEN NaN ELSE Infinity)
    ELSE IF a.m = 0 THEN Zero
    ELSE LET q0 == a.m \div b.m
             f  == LongDiv(a.m % b.m, b.m, 8)
         IN  IF q0 = 0
             THEN Norm(f[1] + (IF f[2] * 2 >= b.m THEN 1 ELSE 0), a.e - b.e - 8)
             ELSE Norm(q0 * Lo + (f[1] \div 10) + (IF f[1] % 10 >= 5 THEN 1 ELSE 0),
                       a.e - b.e - 7)

\* a + b
FAdd(a, b) ==
    IF a.m = 0 THEN b
    ELSE IF b.m = 0 THEN a
    ELSE IF a.e >= b.e THEN Norm(a.m + Shift(b.m, a.e - b.e), a.e)
    ELSE Norm(b.m + Shift(a.m, b.e - a.e), b.e)

\* a - b, for a >= b
FSub(a, b) ==
    IF b.m = 0 THEN a ELSE Norm(a.m - Shift(b.m, a.e - b.e), a.e)

\* a >= b
FGe(a, b) ==
    IF b.m = 0 THEN TRUE
    ELSE IF a.m = 0 THEN FALSE
    ELSE a.e > b.e \/ (a.e = b.e /\ a.m >= b.m)

\* Math.pow(x, n) for an integer n >= 0
RECURSIVE Pow(_, _)
Pow(x, n) == IF n = 0 THEN One ELSE FMul(Pow(x, n - 1), x)

\* x.toFixed(d): the decimal string with d decimals, given as the number of
\* 10^-d units it denotes
ToFixed(x, d) ==
    IF x = NaN THEN NaNText
    ELSE IF x = Infinity THEN InfinityText
    ELSE IF x.e + d >= 0 THEN x.m * 10 ^ (x.e + d) ELSE Shift(x.m, 0 - (x.e + d))

----------------------------------------------------------------------------
(* The DCF engine: the useMemo callback named valuation.                   *)

Years == 10

\* growth / 100, discount / 100, perpetual / 100
Pct(x) == FDiv(x, Dec(100, 0))

\* a guard that compares the percentage, not the fraction, with r
FeasiblePercent(pg, r) == ~FGe(FMul(pg, Dec(100, 0)), r)

\* the guard `if (pg >= r) return null` lets the computation go on iff this
Feasible(pg, r) == ~FGe(pg, r)

\* a projection that compounds the growth rate twice a year
GrowTwice(currentFcf, g) == FMul(FMul(currentFcf, FAdd(One, g)), FAdd(One, g))

\* currentFcf *= (1 + g)
Grow(currentFcf, g) == FMul(currentFcf, FAdd(One, g))

\* the for loop: t = 1 .. 10
RECURSIVE Stage1(_, _, _, _, _, _)
Stage1(t, currentFcf, stage1Sum, chartData, g, r) ==
    IF ~(t <= Years)
    THEN [currentFcf |-> currentFcf, stage1Sum |-> stage1Sum, chartData |-> chartData]
    ELSE LET c == Grow(currentFcf, g)
         IN  Stage1(t + 1, c,
                    FAdd(stage1Sum, FDiv(c, Pow(FAdd(One, r), t))),
                    Append(chartData, [year |-> t, fcf |-> ToFixed(c, 2)]),
                    g, r)

\* a total that leaves the terminal value out
TotalStage1Only(stage1Sum, discountedTV) == stage1Sum

\* const total = stage1Sum + discountedTV
Total(stage1Sum, discountedTV) == FAdd(stage1Sum, discountedTV)

\* the values the result is built from, before any rounding to decimals
Totals(p) ==
    LET g  == Pct(p.growth)
        r  == Pct(p.discount)
        pg == Pct(p.perpetual)
        s  == Stage1(1, p.fcf, Zero, <<>>, g, r)
        terminalValue == FDiv(FMul(s.currentFcf, FAdd(One, pg)), FSub(r, pg))
        discountedTV  == FDiv(terminalValue, Pow(FAdd(One, r), Years))
    IN  [stage1Sum |-> s.stage1Sum, discountedTV |-> discountedTV,
         total |-> Total(s.stage1Sum, discountedTV), chartData |-> s.chartData]

\* a multiple computed without the test of fcf
MultipleUnguarded(fcf, total) == ToFixed(FDiv(total, fcf), 1)

\* fcf !== 0 ? (total / fcf).toFixed(1) : 0
Multiple(fcf, total) ==
    IF fcf.m # 0 THEN ToFixed(FDiv(total, fcf), 1) ELSE 0

\* total !== 0 ? ((discountedTV / total) * 100).toFixed(1) : 0
TvRatio(discountedTV, total) ==
    IF total.m # 0
    THEN ToFixed(FMul(FDiv(discountedTV, total), Dec(100, 0)), 1)
    ELSE 0

\* the object the callback returns
Result(fcf, v) ==
    [total       |-> ToFixed(v.total, 2),
     stage1      |-> ToFixed(v.stage1Sum, 2),
     tv          |-> ToFixed(v.discountedTV, 2),
     safetyPrice |-> ToFixed(FMul(v.total, Dec(7, 1)), 2),
     multiple    |-> Multiple(fcf, v.total),
     tvRatio     |-> TvRatio(v.discountedTV, v.total),
     chartData   |-> v.chartData]

Valuation(p) ==
    IF ~Feasible(Pct(p.perpetual), Pct(p.discount)) THEN Null
    ELSE Result(p.fcf, Totals(p))

----------------------------------------------------------------------------
(* The parameter state of App and its setters.                             *)

\* parameter values are written in tenths: 30 is 3.0
MkParams(f, g, d, p) ==
    [fcf |-> Dec(f, 1), growth |-> Dec(g, 1), discount |-> Dec(d, 1),
     perpetual |-> Dec(p, 1)]

\* useState({fcf: 10, growth: 15, discount: 10, perpetual: 3.0})
InitParams == MkParams(100, 150, 100, 30)

\* the values the engine is checked on, in tenths: base cash flows the text
\* box accepts and rates within the slider ranges (growth 0..50,
\* discount 5..20, perpetual 0..5 in steps of 0.1)
ValFcf == {0, 5, 10, 100}
ValGrowth == {0, 150, 300}
ValDiscount == {50, 100, 200}
ValPerpetual == {0, 15, 30, 40, 50}

\* the values the page is checked on
PageDiscount == {50, 100}
PagePerpetual == {30, 50}

\* the positions of the FcfInput slider (0..100 in steps of 0.1), in tenths
FcfRaw == {0, 100, 200, 300, 400, 700, 1000}

\* the text of a number box: empty (what an <input type="number"> gives for
\* anything that is not a number), or a decimal numeral n * 10^-d with a sign
EmptyText == [kind |-> "empty", neg |-> FALSE, n |-> 0, d |-> 0]
Text(neg, n, d) == [kind |-> "num", neg |-> neg, n |-> n, d |-> d]

\* the texts typed into the box: nothing, -5, -0.1, 0, 2.5, 7, 50, 300
Typed == {EmptyText, Text(TRUE, 5, 0), Text(TRUE, 1, 1), Text(FALSE, 0, 0),
          Text(FALSE, 25, 1), Text(FALSE, 7, 0), Text(FALSE, 50, 0),
          Text(FALSE, 300, 0)}

\* parseFloat(text); a negative number has a negative mantissa
parseFloat(text) ==
    IF text.kind = "empty" THEN NaN
    ELSE IF text.neg
    THEN [m |-> 0 - Dec(text.n, text.d).m, e |-> Dec(text.n, text.d).e]
    ELSE Dec(text.n, text.d)

\* raw <= 40 ? (raw / 4).toFixed(1) : (10 + ((raw - 40) / 60) * 490).toFixed(0)
SliderText(raw) ==
    LET r == Dec(raw, 1)
    IN  IF FGe(Dec(40, 0), r)
        THEN Text(FALSE, ToFixed(FDiv(r, Dec(4, 0)), 1), 1)
        ELSE Text(FALSE,
                  ToFixed(FAdd(Dec(10, 0),
                               FMul(FDiv(FSub(r, Dec(40, 0)), Dec(60, 0)),
                                    Dec(490, 0))), 0),
                  0)

\* [1, 50, 100, 500].map(v => <button ...>)
QuickJumps == {1, 50, 100, 500}

\* !isNaN(parsed) && parsed >= 0
Accepted(parsed) == parsed # NaN /\ parsed.m >= 0

\* a commit that puts 0 in place of a rejected text
BlurValueOrZero(parsed, value) == IF Accepted(parsed) THEN parsed ELSE Zero

\* handleBlur: the value of params.fcf after `if (...) onChange(parsed)`
BlurValue(parsed, value) == IF Accepted(parsed) THEN parsed ELSE value

\* the base cash flows that FcfInput can produce from these inputs
FcfValues ==
    {parseFloat(SliderText(raw)) : raw \in FcfRaw}
        \cup {Dec(v, 0) : v \in QuickJumps}
        \cup {parseFloat(t) : t \in {u \in Typed : Accepted(parseFloat(u))}}

AllParams ==
    {MkParams(f, g, d, p) :
        f \in ValFcf, g \in ValGrowth,
        d \in ValDiscount \cup PageDiscount, p \in ValPerpetual \cup PagePerpetual}
    \cup {[InitParams EXCEPT !.fcf = v] : v \in FcfValues}

\* useMemo(callback, [params]): the callback's value for the current params
useMemo == [p \in AllParams |-> Valuation(p)]

\* setParams({...params, <field>: v}) and the re-render that recomputes the memo
SetParam(field, v) ==
    /\ params' = [params EXCEPT ![field] = v]
    /\ valuation' = useMemo[params']

InitEngine ==
    /\ params = InitParams
    /\ valuation = useMemo[params]

----------------------------------------------------------------------------
(* FcfInput: the controls of the base cash flow.                           *)

\* useState(false), useState(value.toString())
InitInput ==
    /\ isEditing = FALSE
    /\ tempValue = Text(FALSE, 10, 0)

\* the slider's onChange, for a position among raws
Slide(raws) ==
    \E raw \in raws :
        LET val == SliderText(raw)
        IN  /\ SetParam("fcf", parseFloat(val))
            /\ tempValue' = val

\* a click on the displayed value: setIsEditing(true)
StartEditing ==
    /\ ~isEditing
    /\ isEditing' = TRUE
    /\ UNCHANGED <<params, valuation, tempValue, pageVars, proxyVars>>

\* the box's onChange: setTempValue(e.target.value)
TypeText ==
    /\ isEditing
    /\ \E text \in Typed : tempValue' = text
    /\ UNCHANGED <<params, valuation, isEditing, pageVars, proxyVars>>

\* the box loses the focus, or Enter is pressed: handleBlur
handleBlur ==
    /\ isEditing
    /\ isEditing' = FALSE
    /\ SetParam("fcf", BlurValue(parseFloat(tempValue), params.fcf))
    /\ UNCHANGED <<tempValue, pageVars, proxyVars>>

\* the slider is moved
SliderChange ==
    /\ Slide(FcfRaw)
    /\ UNCHANGED <<isEditing, pageVars, proxyVars>>

\* a quick-jump button: onChange(v); setTempValue(v.toString())
QuickJump ==
    /\ \E v \in QuickJumps :
          /\ SetParam("fcf", Dec(v, 0))
          /\ tempValue' = Text(FALSE, v, 0)
    /\ UNCHANGED <<isEditing, pageVars, proxyVars>>

----------------------------------------------------------------------------
(* The narrative client of App.jsx: handleAiDeepDive and fetchWithRetry.   *)

MaxRuns == 2

DefaultRetries == 5
DefaultDelay == 1000

MsgConfig == "config missing"
MsgFailed == "AI diagnosis failed (retried 5 times)"

\* one entry of a run's history: a request sent, an attempt that failed, a
\* timer started for ms milliseconds, a body parsed
Ev(kind, ms) == [ev |-> kind, ms |-> ms]

\* a button without disabled={isAnalyzing}, and one rendered without a valuation
ButtonNeverDisabled == valuation # Null
ButtonAlwaysRendered == ~isAnalyzing

\* the button is rendered only under `valuation ?`, with disabled={isAnalyzing}
ButtonClickable == valuation # Null /\ ~isAnalyzing

\* a retry test that is off by one
CanRetryOffByOne(retries) == retries >= 0

\* `if (retries > 0)` in the catch block
CanRetry(retries) == retries > 0

\* a backoff that grows by a fixed step, and one that triples
NextDelayLinear(delay) == delay + 1000
NextDelayTriple(delay) == delay * 3

\* the delay of the recursive call: delay * 2
NextDelay(delay) == delay * 2

\* the prompt template of handleAiDeepDive: ${params.fcf}, ${params.growth},
\* ${params.discount}, ${params.perpetual} and ${valuation?.total}
Prompt ==
    [fcf |-> params.fcf, growth |-> params.growth, discount |-> params.discount,
     perpetual |-> params.perpetual,
     total |-> IF valuation = Null THEN Undefined ELSE valuation.total]

\* the two places a narrative request can be sent to: the upstream
\* language-model API and the route of the proxy
UpstreamHost == "generativelanguage.googleapis.com"
ProxyRoute == "/api/generate"

\* const API_URL = `https://generativelanguage.googleapis.com/...?key=${apiKey}`
API_URL == [host |-> UpstreamHost, key |-> apiKey]

\* fetchWithRetry(prompt) up to its first await: the request is sent to
\* API_URL, as every later request of the call is
NewRun ==
    [pc |-> "fetch", retries |-> DefaultRetries, delay |-> DefaultDelay,
     result |-> "", log |-> <<Ev("send", 0)>>, url |-> API_URL]

InitPage ==
    /\ deepReport = ""
    /\ isAnalyzing = FALSE
    /\ error = ""
    /\ apiKey \in {"", "key"}
    /\ runs = <<>>
    /\ prompt = Null

\* a start that keeps the report of the run before
KeptReport == deepReport

\* setDeepReport("") at the start of a run
ClearedReport == ""

\* a click on the narrative button: handleAiDeepDive up to its first await
Click ==
    /\ ButtonClickable
    /\ IF apiKey = ""
       THEN /\ error' = MsgConfig
            /\ UNCHANGED <<deepReport, isAnalyzing, runs, prompt>>
       ELSE /\ Len(runs) < MaxRuns
            /\ isAnalyzing' = TRUE
            /\ error' = ""
            /\ deepReport' = ClearedReport
            /\ prompt' = Prompt
            /\ runs' = Append(runs, NewRun)
    /\ UNCHANGED <<params, valuation, apiKey, inputVars, proxyVars>>

\* a finally block that leaves the flag set
FinallyKeepsAnalyzing == TRUE

\* finally { setIsAnalyzing(false) }: the value the flag gets when a run ends
FinallyIsAnalyzing == FALSE

\* the catch block of fetchWithRetry in run i: wait and retry, or rethrow to
\* handleAiDeepDive, whose catch sets the error and whose finally ends the run
Caught(i) ==
    IF CanRetry(runs[i].retries)
    THEN /\ runs' = [runs EXCEPT ![i].pc = "wait",
                                 ![i].log = runs[i].log \o
                                     <<Ev("fail", 0), Ev("wait", runs[i].delay)>>]
         /\ UNCHANGED <<deepReport, isAnalyzing, error>>
    ELSE /\ runs' = [runs EXCEPT ![i].pc = "failed",
                                 ![i].log = Append(runs[i].log, Ev("fail", 0))]
         /\ error' = MsgFailed
         /\ isAnalyzing' = FinallyIsAnalyzing
         /\ UNCHANGED deepReport

\* await fetch(...) rejects: a network-level failure
FetchRejects ==
    \E i \in 1 .. Len(runs) :
        /\ runs[i].pc = "fetch"
        /\ Caught(i)
        /\ UNCHANGED <<params, valuation, apiKey, prompt, inputVars, proxyVars>>

\* await fetch(...) resolves with a response; `if (!response.ok) throw`
FetchResponds ==
    \E i \in 1 .. Len(runs), ok \in BOOLEAN :
        /\ runs[i].pc = "fetch"
        /\ IF ok
           THEN /\ runs' = [runs EXCEPT ![i].pc = "json"]
                /\ UNCHANGED <<deepReport, isAnalyzing, error>>
           ELSE Caught(i)
        /\ UNCHANGED <<params, valuation, apiKey, prompt, inputVars, proxyVars>>

\* await response.json() rejects: the body is not JSON
JsonRejects ==
    \E i \in 1 .. Len(runs) :
        /\ runs[i].pc = "json"
        /\ Caught(i)
        /\ UNCHANGED <<params, valuation, apiKey, prompt, inputVars, proxyVars>>

\* await response.json() resolves; fetchWithRetry returns
\* data.candidates?.[0]?.content?.parts?.[0]?.text, which is undefined when the
\* body has no candidate text; handleAiDeepDive stores it and its finally runs
JsonResolves ==
    \E i \in 1 .. Len(runs), text \in {"report", Undefined} :
        /\ runs[i].pc = "json"
        /\ runs' = [runs EXCEPT ![i].pc = "done", ![i].result = text,
                                ![i].log = Append(runs[i].log, Ev("ok", 0))]
        /\ deepReport' = text
        /\ isAnalyzing' = FinallyIsAnalyzing
        /\ UNCHANGED <<error, params, valuation, apiKey, prompt, inputVars, proxyVars>>

\* the setTimeout of the catch block fires: the recursive call
\* fetchWithRetry(prompt, retries - 1, delay * 2) sends the next request
TimerFires ==
    \E i \in 1 .. Len(runs) :
        /\ runs[i].pc = "wait"
        /\ runs' = [runs EXCEPT ![i].pc = "fetch",
                                ![i].retries = runs[i].retries - 1,
                                ![i].delay = NextDelay(runs[i].delay),
                                ![i].log = Append(runs[i].log, Ev("send", 0))]
        /\ UNCHANGED <<deepReport, isAnalyzing, error, params, valuation, apiKey,
                       prompt, inputVars, proxyVars>>

\* the two sliders that decide whether there is a valuation; the base cash flow
\* control is taken on its own in FcfSpec and the growth slider in ValSpec
SetDiscount ==
    /\ \E v \in PageDiscount : SetParam("discount", Dec(v, 1))
    /\ UNCHANGED <<pageVars, inputVars, proxyVars>>

SetPerpetual ==
    /\ \E v \in PagePerpetual : SetParam("perpetual", Dec(v, 1))
    /\ UNCHANGED <<pageVars, inputVars, proxyVars>>

Init == InitEngine /\ InitInput /\ InitPage /\ reqs = <<>> /\ envKey = "key"

Next ==
    \/ SetDiscount
    \/ SetPerpetual
    \/ Click
    \/ FetchRejects
    \/ FetchResponds
    \/ JsonRejects
    \/ JsonResolves
    \/ TimerFires

Spec == Init /\ [][Next]_vars

\* every network attempt eventually resolves or fails, every body is
\* eventually read or found unreadable, and every timer eventually fires
Fairness ==
    /\ WF_vars(FetchRejects \/ FetchResponds)
    /\ WF_vars(JsonRejects \/ JsonResolves)
    /\ WF_vars(TimerFires)

LiveSpec == Spec /\ Fairness

----------------------------------------------------------------------------
(* FcfInput on its own.                                                    *)

FcfInit == InitEngine /\ InitInput /\ InitPage /\ apiKey = "key" /\ reqs = <<>>
               /\ envKey = "key"

FcfNext ==
    \/ StartEditing
    \/ TypeText
    \/ handleBlur
    \/ SliderChange
    \/ QuickJump

FcfSpec == FcfInit /\ [][FcfNext]_vars

----------------------------------------------------------------------------
(* The engine on its own.                                                  *)

ValSetFcf ==
    /\ \E v \in ValFcf : SetParam("fcf", Dec(v, 1))
    /\ UNCHANGED <<pageVars, inputVars, proxyVars>>

ValSetGrowth ==
    /\ \E v \in ValGrowth : SetParam("growth", Dec(v, 1))
    /\ UNCHANGED <<pageVars, inputVars, proxyVars>>

ValSetDiscount ==
    /\ \E v \in ValDiscount : SetParam("discount", Dec(v, 1))
    /\ UNCHANGED <<pageVars, inputVars, proxyVars>>

ValSetPerpetual ==
    /\ \E v \in ValPerpetual : SetParam("perpetual", Dec(v, 1))
    /\ UNCHANGED <<pageVars, inputVars, proxyVars>>

ValInit == InitEngine /\ InitInput /\ InitPage /\ apiKey = "key" /\ reqs = <<>> /\ envKey = "key"

ValNext ==
    \/ ValSetFcf
    \/ ValSetGrowth
    \/ ValSetDiscount
    \/ ValSetPerpetual

ValSpec == ValInit /\ [][ValNext]_vars

----------------------------------------------------------------------------
(* The serverless proxy: handler(req, res) of src/unnamed/part_000.        *)

MaxReqs == 2

Methods == {"GET", "POST", "PUT"}
\* the statuses the upstream is taken to answer with
UpStatuses == {200, 429, 503}
\* the bodies of upstream responses: two JSON texts and one that is not JSON
NotJson == "<html>"
UpBodies == {"{candidates}", "{error}", NotJson}

BodyMethodNotAllowed == "{error: 'Method Not Allowed'}"
BodyNoKey == "{error: no API KEY configured on the server}"
BodyForwardFailed == "{error: forwarding the request failed}"

NoUp == [kind |-> "none", status |-> 0, body |-> ""]

\* res.status(s).json(b)
Answer(s, b) == [status |-> s, body |-> b]

\* a method test that lets PUT through
MethodAllowedPut(method) == method \in {"POST", "PUT"}

\* `req.method !== 'POST'` is false
MethodAllowed(method) == method = "POST"

\* getApiKey(): (typeof import.meta !== 'undefined' &&
\* import.meta.env?.VITE_GEMINI_API_KEY) || ""
getApiKey(env) == IF env = Undefined \/ env = "" THEN "" ELSE env

\* a handler without the key test
KeyNeverMissing(k) == FALSE

\* `!apiKey`
KeyMissing(k) == k = ""

\* a catch block that sends the request again
OnForwardErrorRetry(q) ==
    [q EXCEPT !.pc = "fetch", !.upstream = q.upstream + 1, !.up = NoUp]

\* the catch block of the handler, for the invocation q
OnForwardError(q) ==
    [q EXCEPT !.pc = "done",
              !.resp = Append(q.resp, Answer(500, BodyForwardFailed))]

\* the handler up to its first await, or to its return
Handle(method) ==
    LET q == [method |-> method, pc |-> "done", upstream |-> 0, up |-> NoUp,
              resp |-> <<>>]
    IN  IF ~MethodAllowed(method)
        THEN [q EXCEPT !.resp = <<Answer(405, BodyMethodNotAllowed)>>]
        ELSE IF KeyMissing(getApiKey(envKey))
        THEN [q EXCEPT !.resp = <<Answer(500, BodyNoKey)>>]
        ELSE [q EXCEPT !.pc = "fetch", !.upstream = 1]

InitProxy ==
    /\ envKey \in {Undefined, "", "key"}
    /\ reqs = <<>>

\* an inbound request arrives and the handler is invoked on it
Request ==
    \E method \in Methods :
        /\ Len(reqs) < MaxReqs
        /\ reqs' = Append(reqs, Handle(method))
        /\ UNCHANGED <<envKey, params, valuation, pageVars, inputVars>>

\* await fetch(url, ...) resolves: the upstream has answered
UpstreamResponds ==
    \E i \in 1 .. Len(reqs), s \in UpStatuses, b \in UpBodies :
        /\ reqs[i].pc = "fetch"
        /\ reqs' = [reqs EXCEPT ![i].pc = "json",
                                ![i].up = [kind |-> "response", status |-> s, body |-> b]]
        /\ UNCHANGED <<envKey, params, valuation, pageVars, inputVars>>

\* await fetch(url, ...) rejects: the upstream was not reached
UpstreamUnreachable ==
    \E i \in 1 .. Len(reqs) :
        /\ reqs[i].pc = "fetch"
        /\ reqs' = [reqs EXCEPT
                      ![i] = OnForwardError([reqs[i] EXCEPT
                                 !.up = [kind |-> "unreachable", status |-> 0, body |-> ""]])]
        /\ UNCHANGED <<envKey, params, valuation, pageVars, inputVars>>

\* await googleResponse.json() resolves, then
\* res.status(googleResponse.status).json(data)
BodyParsed ==
    \E i \in 1 .. Len(reqs) :
        /\ reqs[i].pc = "json"
        /\ reqs[i].up.body # NotJson
        /\ reqs' = [reqs EXCEPT ![i].pc = "done",
                                ![i].resp = Append(reqs[i].resp,
                                    Answer(reqs[i].up.status, reqs[i].up.body))]
        /\ UNCHANGED <<envKey, params, valuation, pageVars, inputVars>>

\* await googleResponse.json() rejects: the catch block answers
BodyUnparsable ==
    \E i \in 1 .. Len(reqs) :
        /\ reqs[i].pc = "json"
        /\ reqs[i].up.body = NotJson
        /\ reqs' = [reqs EXCEPT ![i] = OnForwardError(reqs[i])]
        /\ UNCHANGED <<envKey, params, valuation, pageVars, inputVars>>

ProxyInit == InitEngine /\ InitInput /\ InitPage /\ InitProxy /\ apiKey = "key"

ProxyNext ==
    \/ Request
    \/ UpstreamResponds
    \/ UpstreamUnreachable
    \/ BodyParsed
    \/ BodyUnparsable

ProxySpec == ProxyInit /\ [][ProxyNext]_vars

----------------------------------------------------------------------------
(* Properties.                                                             *)

\* the number of entries of a run's history that are of one kind
Count(log, kind) == Cardinality({k \in 1 .. Len(log) : log[k].ev = kind})

Runs == 1 .. Len(runs)
Reqs == 1 .. Len(reqs)

\* C1: the valuation is null when terminalGrowthRate >= discountRate, equality
\* included and whatever the other parameters are, and it is a result with a
\* numeric total when terminalGrowthRate < discountRate.
C1_ResultIffFeasible ==
    \A d \in ValDiscount, p \in ValPerpetual :
        (params.discount = Dec(d, 1) /\ params.perpetual = Dec(p, 1))
            => IF p >= d THEN valuation = Null
                         ELSE valuation # Null /\ valuation.total \in Nat

\* C1, its case: the two rates are equal and no result is produced
C1_Witness ==
    /\ params.perpetual = params.discount
    /\ params.fcf # InitParams.fcf
    /\ valuation = Null

\* C2 as stated: one fetchWithRetry call sends at most 5 requests.
C2_AtMostFiveRequests ==
    \A i \in Runs : Count(runs[i].log, "send") <= 5

\* C2 as amended: one fetchWithRetry call sends at most 6 requests, the first
\* attempt and 5 retries; it fails exactly when 6 attempts have failed, then no
\* further request is sent and the narrative-unavailable error is shown.
C2_AtMostSixRequests ==
    \A i \in Runs :
        /\ Count(runs[i].log, "send") <= 6
        /\ runs[i].pc = "failed" <=> Count(runs[i].log, "fail") = 6
        /\ runs[i].pc = "failed" => Count(runs[i].log, "send") = 6
        /\ (runs[i].pc = "failed" /\ i = Len(runs)) => error = MsgFailed

\* C2, its case: a run whose every attempt failed
C2_Witness ==
    \E i \in Runs : runs[i].pc = "failed" /\ error = MsgFailed

\* what a run does when 4 attempts fail and the 5th succeeds
FourFailuresLog ==
    <<Ev("send", 0), Ev("fail", 0), Ev("wait", 1000),
      Ev("send", 0), Ev("fail", 0), Ev("wait", 2000),
      Ev("send", 0), Ev("fail", 0), Ev("wait", 4000),
      Ev("send", 0), Ev("fail", 0), Ev("wait", 8000),
      Ev("send", 0), Ev("ok", 0)>>

\* C3: when the first 4 attempts of a call fail and the 5th succeeds, the call
\* returns what the upstream gave, and exactly 4 waits occurred, of 1000, 2000,
\* 4000 and 8000 ms in this order, each between a failed attempt and the next.
C3_FourFailuresThenSuccess ==
    \A i \in Runs :
        (Count(runs[i].log, "fail") = 4 /\ Count(runs[i].log, "ok") = 1)
            => /\ runs[i].pc = "done"
               /\ runs[i].result # ""
               /\ runs[i].log = FourFailuresLog

\* C3, its case: a run that succeeded on its 5th attempt
C3_Witness ==
    \E i \in Runs :
        /\ Count(runs[i].log, "fail") = 4
        /\ runs[i].pc = "done"
        /\ runs[i].result = "report"
        /\ deepReport = "report"

\* C4: the wait after the failed attempt with 0-based index k is 1000 * 2^k ms:
\* every wait follows a failed attempt, the first is 1000 ms, each later one is
\* the double of the one before, and none exceeds 16000 ms.
C4_ExponentialBackoff ==
    \A i \in Runs :
        \A j \in 1 .. Len(runs[i].log) :
            runs[i].log[j].ev = "wait"
                => /\ j > 1
                   /\ runs[i].log[j - 1].ev = "fail"
                   /\ runs[i].log[j].ms
                        = 1000 * 2 ^ (Count(SubSeq(runs[i].log, 1, j), "fail") - 1)
                   /\ runs[i].log[j].ms <= 16000

\* C4, its case: the longest wait, after the 5th failed attempt
C4_Witness ==
    \E i \in Runs :
        \E j \in 1 .. Len(runs[i].log) :
            runs[i].log[j] = Ev("wait", 16000)

\* the runs of handleAiDeepDive that have not finished
Outstanding == {i \in Runs : runs[i].pc \notin {"done", "failed"}}

\* C5: at most one handleAiDeepDive run is outstanding at any time, whatever the
\* clicks, parameter changes and network completions; isAnalyzing tells it.
C5_OneRunOutstanding ==
    /\ Cardinality(Outstanding) <= 1
    /\ isAnalyzing <=> Outstanding # {}

\* C5, its case: a second run is outstanding after the parameters went
\* infeasible and feasible again during the first run
C5_Witness ==
    /\ Len(runs) = 2
    /\ runs[1].pc = "failed"
    /\ runs[2].pc = "wait"
    /\ valuation = Null

\* C6: a request whose method is not POST is answered 405 with
\* {error: 'Method Not Allowed'} and nothing is sent upstream, with or without
\* a configured key.
C6_NonPostRejected ==
    \A i \in Reqs :
        reqs[i].method # "POST"
            => /\ reqs[i].resp = <<Answer(405, BodyMethodNotAllowed)>>
               /\ reqs[i].upstream = 0
               /\ reqs[i].pc = "done"

\* C6, its case: a request that is not a POST, with a key configured
C6_Witness ==
    \E i \in Reqs : reqs[i].method = "PUT" /\ envKey = "key"

\* C7: a POST is answered 500 with the missing-key payload, and nothing is sent
\* upstream, when no key is configured; with a key configured it is forwarded
\* upstream and never answered with the missing-key payload.
C7_MissingKey ==
    \A i \in Reqs :
        reqs[i].method = "POST"
            => IF envKey \in {Undefined, ""}
               THEN /\ reqs[i].resp = <<Answer(500, BodyNoKey)>>
                    /\ reqs[i].upstream = 0
               ELSE /\ reqs[i].upstream = 1
                    /\ \A k \in 1 .. Len(reqs[i].resp) :
                           reqs[i].resp[k].body # BodyNoKey

\* C7, its case: a POST that arrived while no key was configured
C7_Witness ==
    \E i \in Reqs :
        /\ reqs[i].method = "POST"
        /\ envKey = Undefined
        /\ reqs[i].resp = <<Answer(500, BodyNoKey)>>

\* C8: a forwarded POST for which the upstream returned a response is answered
\* with the status and the body of that response.
C8_UpstreamRelayed ==
    \A i \in Reqs :
        (reqs[i].up.kind = "response" /\ reqs[i].pc = "done")
            => reqs[i].resp = <<Answer(reqs[i].up.status, reqs[i].up.body)>>

\* C9: the proxy never retries: an inbound request causes at most one upstream
\* request and gets one response, no more, once the handler has returned; when
\* the upstream is not reached the response is 500 with an error payload.
C9_NoRetryOneResponse ==
    \A i \in Reqs :
        /\ reqs[i].upstream <= 1
        /\ Len(reqs[i].resp) <= 1
        /\ reqs[i].pc = "done" <=> Len(reqs[i].resp) = 1
        /\ reqs[i].up.kind = "unreachable"
               => reqs[i].resp = <<Answer(500, BodyForwardFailed)>>

\* C9, its case: a forwarded request whose upstream was not reached
C9_Witness ==
    \E i \in Reqs :
        /\ reqs[i].up.kind = "unreachable"
        /\ reqs[i].upstream = 1
        /\ Len(reqs[i].resp) = 1

\* C10 as stated: the returned fields satisfy total = stage1 + tv exactly.
C10_TotalIsExactSum ==
    valuation # Null => valuation.total = valuation.stage1 + valuation.tv

\* C10 as amended: the returned total differs from the returned stage1 + tv by
\* at most 0.01, each of the three being rounded to 2 decimals on its own.
C10_TotalIsSumToTheCent ==
    valuation # Null
        => /\ valuation.total - (valuation.stage1 + valuation.tv) <= 1
           /\ (valuation.stage1 + valuation.tv) - valuation.total <= 1

\* C10, its case: a result whose parts do not add up to its total
C10_Witness ==
    /\ valuation # Null
    /\ valuation.stage1 > 0
    /\ valuation.tv > 0
    /\ valuation.total = valuation.stage1 + valuation.tv + 1

\* every field of the result is a number: none is NaN or infinite
FieldsAreNumbers ==
    /\ \A k \in 1 .. Len(valuation.chartData) : valuation.chartData[k].fcf \in Nat
    /\ {valuation.total, valuation.stage1, valuation.tv, valuation.safetyPrice,
        valuation.multiple, valuation.tvRatio} \subseteq Nat

\* C11: with baseCashFlow = 0 and feasible rates, every projected cash flow is
\* 0, the total and its parts are 0, the multiple and the terminal-value ratio
\* are 0, and every returned field is a number: none is NaN or infinite.
C11_ZeroGuard ==
    (params.fcf = Zero /\ valuation # Null)
        => /\ FieldsAreNumbers
           /\ \A k \in 1 .. Len(valuation.chartData) : valuation.chartData[k].fcf = 0
           /\ valuation.total = 0
           /\ valuation.stage1 = 0
           /\ valuation.tv = 0
           /\ valuation.safetyPrice = 0
           /\ valuation.multiple = 0
           /\ valuation.tvRatio = 0

\* C11, its case: a result computed from a base cash flow of 0 with a growth
\* rate that is not 0
C11_Witness ==
    /\ params.fcf = Zero
    /\ params.growth # Zero
    /\ valuation # Null
    /\ Len(valuation.chartData) = Years

\* baseCashFlow compounded t times at the rate g, nothing rounded on the way
RECURSIVE Compound(_, _, _)
Compound(fcf, g, t) ==
    IF t = 0 THEN fcf ELSE FMul(Compound(fcf, g, t - 1), FAdd(One, g))

\* C12: a result's projection has exactly 10 points, for the years 1 to 10 in
\* increasing order; the cash flow of year t is the one of year t-1 times
\* (1 + growthRate), year 0 being baseCashFlow, and the point shows it to the
\* cent, so that two successive points follow the recurrence to about a cent.
\* For the parameters 10, 15 %, 10 %, 3 % the year-1 cash flow is 11.5,
\* total > stage1 > 0 and the terminal-value ratio is strictly between 0 and 100.
C12_Projection ==
    /\ valuation # Null
         => /\ Len(valuation.chartData) = Years
            /\ \A t \in 1 .. Years :
                  /\ valuation.chartData[t].year = t
                  /\ valuation.chartData[t].fcf
                        = ToFixed(Compound(params.fcf, Pct(params.growth), t), 2)
            /\ \A g \in ValGrowth, t \in 2 .. Years :
                  params.growth = Dec(g, 1)
                      => LET d == 1000 * valuation.chartData[t].fcf
                                    - (1000 + g) * valuation.chartData[t - 1].fcf
                         IN  d <= 1200 /\ 0 - d <= 1200
    /\ params = InitParams
         => /\ valuation # Null
            /\ valuation.chartData[1].fcf = 1150
            /\ valuation.total > valuation.stage1
            /\ valuation.stage1 > 0
            /\ valuation.tvRatio > 0
            /\ valuation.tvRatio < 1000

\* C12, its case: a growing projection from a base cash flow other than the
\* initial one
C12_Witness ==
    /\ params.fcf = Dec(5, 1)
    /\ params.growth = Dec(300, 1)
    /\ valuation # Null
    /\ valuation.chartData[Years].fcf > valuation.chartData[1].fcf

\* C13: provided every network attempt eventually resolves or fails, every
\* started handleAiDeepDive run eventually ends with isAnalyzing = false, on
\* success and on retry exhaustion alike; no step of a run changes the
\* parameters or the valuation, which stays the one derived from them.
C13_RunsEndAndLeaveValuation ==
    /\ \A i \in 1 .. MaxRuns :
          (Len(runs) >= i /\ runs[i].pc \notin {"done", "failed"})
              ~> (Len(runs) >= i /\ runs[i].pc \in {"done", "failed"} /\ ~isAnalyzing)
    /\ [][runs' # runs => UNCHANGED <<params, valuation>>]_vars
    /\ [](valuation = useMemo[params])

\* C13, its case: after a run that failed on every attempt the button is
\* enabled again and the parameters have been adjusted
C13_Witness ==
    /\ Len(runs) = 1
    /\ runs[1].pc = "failed"
    /\ ~isAnalyzing
    /\ error = MsgFailed
    /\ params.discount # InitParams.discount
    /\ valuation # Null

\* C14: every narrative request goes to the proxy, never directly to the
\* upstream language-model API, and the page holds no API secret and puts none
\* in the requests it sends.
C14_RequestsGoThroughProxy ==
    \A i \in Runs :
        /\ runs[i].url.host = ProxyRoute
        /\ runs[i].url.host # UpstreamHost
        /\ runs[i].url.key = ""
        /\ apiKey = ""

\* C15: once a handleAiDeepDive run has finished, a report text is stored in
\* deepReport or a message is stored in error: never neither, also when the
\* upstream answered with a success status and a body without candidate text.
C15_ReportOrError ==
    (Len(runs) > 0 /\ ~isAnalyzing)
        => \/ deepReport \notin {"", Undefined}
           \/ error # ""

\* C16: whatever the FcfInput operations (text committed by blur or Enter,
\* slider move, quick-jump button), params.fcf is a number that is >= 0, and
\* committing a text that is not a number or is negative leaves params.fcf as
\* it was.
C16_FcfStaysNonNegative ==
    /\ [](params.fcf \notin {NaN, Infinity} /\ params.fcf.m >= 0)
    /\ [][(isEditing /\ ~isEditing' /\ ~Accepted(parseFloat(tempValue)))
             => params' = params]_vars

\* C16, its case: a negative text was committed after the base cash flow had
\* been set to 2.5
C16_Witness ==
    /\ tempValue = Text(TRUE, 5, 0)
    /\ ~isEditing
    /\ params.fcf = Dec(25, 1)

\* C17: error and deepReport are never both non-empty: a run clears both when
\* it starts and sets at most one of them when it ends, and the missing-key
\* path, which sets error and leaves deepReport, is taken only by a page that
\* never starts a run and so never stores a report.
C17_ErrorOrReport ==
    /\ ~(error # "" /\ deepReport # "")
    /\ apiKey = "" => (runs = <<>> /\ deepReport = "" /\ ~isAnalyzing)
    /\ error = MsgConfig => apiKey = ""
    /\ isAnalyzing => (error = "" /\ deepReport = "")

\* C17, its case: a run that failed after a run that had stored a report
C17_Witness ==
    /\ Len(runs) = 2
    /\ runs[1].result = "report"
    /\ runs[2].pc = "failed"
    /\ error = MsgFailed
    /\ deepReport = ""

\* C18: a narrative request is started only from a feasible valuation: while
\* the valuation is absent the button is not there and no run starts, and the
\* prompt of every started run embeds a numeric total, the one of the valuation
\* shown when the run started.
C18_StartedFromFeasibleValuation ==
    /\ [](valuation = Null => ~ButtonClickable)
    /\ [](runs # <<>> => (prompt # Null /\ prompt.total \in Nat))
    /\ [][Len(runs') > Len(runs)
             => (valuation # Null /\ prompt'.total = valuation.total)]_vars

\* C18, its case: the parameters became infeasible after a run had started
\* from a feasible valuation
C18_Witness ==
    /\ runs # <<>>
    /\ valuation = Null
    /\ prompt # Null
    /\ prompt.total > 0

====
